---- MODULE Spec2Model ----
(***************************************************************************)
(* Data-integrity guard and decision pipeline of 2026ROHSTOFFE.            *)
(*                                                                         *)
(* Modelled operations                                                     *)
(*   signal_guard.audit_and_format_signal   (guard, SignalAudit verdict)   *)
(*   main.guard_intraday_df                 (guard, GuardResult verdict)   *)
(*   decision_engine.decide                 (per-asset band table)         *)
(*   model_core.compute_score               (score mapping)                *)
(*   forecast_assets.forecast_asset/run_all (orchestrator)                 *)
(*                                                                         *)
(* Conventions                                                             *)
(*   - time is counted in half seconds, so that the truncation of          *)
(*     int(timedelta.total_seconds()) to whole seconds is observable;      *)
(*   - a score is an integer number of millionths (0.55 is 550000);        *)
(*   - a reason string is the sequence of its ";"-separated parts, each    *)
(*     part a sequence of strings: the code, followed, for MISSING_COLS,   *)
(*     by the ","-separated column names;                                  *)
(*   - a Python call either returns or raises: CallResult is               *)
(*     [raised, exc, v].                                                   *)
(***************************************************************************)
EXTENDS Integers, Sequences, FiniteSets, TLC

VARIABLES pc, ret, k, results, fed

vars == <<pc, ret, k, results, fed>>

-----------------------------------------------------------------------------
(* Bounds of the model *)

MaxRows == 3

MaxRecs == 2

MaxT == 10

-----------------------------------------------------------------------------
(* Python call outcomes *)

Returned(v) == [raised |-> FALSE, exc |-> "", v |-> v]

Raised(e) == [raised |-> TRUE, exc |-> e, v |-> <<>>]

-----------------------------------------------------------------------------
(* Price tables (pandas DataFrame, abstracted to what the guards read)      *)
(*   none : the argument is None                                           *)
(*   rows : len(df)                                                        *)
(*   cols : df.columns                                                     *)
(*   idx  : what df.index[-1] does: "ts" yields a timestamp, "bad" raises, *)
(*          "nots" yields an object that is no timestamp (e.g. the int of  *)
(*          a RangeIndex)                                                  *)
(*   last : the last timestamp, in half seconds                            *)
(*   nan  : the columns whose last-row value is NaN                        *)

OHLCV == {"Open", "High", "Low", "Close", "Volume"}

ColSets == {OHLCV, OHLCV \ {"Volume"}, OHLCV \ {"Close"}, {"Close", "Volume"}}

IdxKinds == {"ts", "bad", "nots"}

DfNone == [none |-> TRUE, rows |-> 0, cols |-> {}, idx |-> "ts", last |-> 0, nan |-> {}]

DfEmpty == [none |-> FALSE, rows |-> 0, cols |-> OHLCV, idx |-> "ts", last |-> 0, nan |-> {}]

DfNonEmpty ==
    { d \in [none : {FALSE}, rows : 1..MaxRows, cols : ColSets, idx : IdxKinds,
             last : 0..MaxT, nan : SUBSET {"Close", "Volume"}] :
        d.nan \subseteq d.cols }

Dfs == {DfNone, DfEmpty} \cup DfNonEmpty

(* Keyword arguments of the guards *)
GuardConfigs ==
    [timeframe_seconds : {1, 2},
     max_stale_multiplier : {1, 2},
     min_rows : {2, MaxRows},
     required_cols : {<<"Open", "High", "Low", "Close", "Volume">>,
                      <<"Open", "High", "Low", "Close">>},
     critical_last_cols : {<<"Close", "Volume">>, <<"Close">>}]

(* datetime.now(timezone.utc), in half seconds *)
Nows == {4, 7}

INF_AGE == 10^9

-----------------------------------------------------------------------------
(* Helpers *)

(* int(x) of a float number of seconds: truncation toward zero *)
IntOfSeconds(h) == IF h >= 0 THEN h \div 2 ELSE -((-h) \div 2)

(* int(x) raises only for a non-finite float, which total_seconds() of a
   timedelta never is: the default is not taken *)
safe_int(h, default) == IntOfSeconds(h)

(* [c for c in required_cols if c not in df.columns] *)
MissingCols(required_cols, df) ==
    LET absent(c) == c \notin df.cols
    IN  SelectSeq(required_cols, absent)

(* any critical column present in df.columns whose last value is NaN *)
NanLast(critical_last_cols, df) ==
    \E j \in 1..Len(critical_last_cols) :
        /\ critical_last_cols[j] \in df.cols
        /\ critical_last_cols[j] \in df.nan

(* df is None or len(df) == 0 *)
IsEmptyMut(df) == df.none

IsEmpty(df) == df.none \/ df.rows = 0

(* age_s > max_stale_seconds *)
IsStaleMut(age_s, max_stale_seconds) == age_s >= max_stale_seconds

IsStale(age_s, max_stale_seconds) == age_s > max_stale_seconds

(* history_short_flag = 1 under rows < min_rows *)
HistoryShortFlagMut(short) == 0

HistoryShortFlag(short) == IF short THEN 1 ELSE 0

Part(code) == <<code>>

OK == <<Part("OK")>>

(* last_bar_dt.astimezone().strftime("%Y-%m-%d %H:%M:%S"): whole seconds *)
FormatBar(h) == <<h \div 2>>

NA == <<>>

AppendIf(cond, s, e) == IF cond THEN Append(s, e) ELSE s

-----------------------------------------------------------------------------
(* signal_guard.audit_and_format_signal *)

audit_and_format_signal(asset, df, signal_raw, cfg, now) ==
    LET empty    == IsEmpty(df)
        rows     == IF empty THEN 0 ELSE df.rows
        missing  == IF empty THEN <<>> ELSE MissingCols(cfg.required_cols, df)
        short    == ~empty /\ rows < cfg.min_rows
        badIndex == ~empty /\ df.idx = "bad"
        noLast   == empty \/ badIndex
        r1 == IF empty THEN <<Part("EMPTY_DF")>>
              ELSE AppendIf(missing # <<>>, <<>>, <<"MISSING_COLS">> \o missing)
        r2 == AppendIf(short, r1, Part("HISTORY_SHORT"))
        r3 == AppendIf(badIndex, r2, Part("BAD_INDEX"))
    IN  IF ~noLast /\ df.idx = "nots"
        THEN Raised("AttributeError")
        ELSE
        LET age_s == IF noLast THEN INF_AGE ELSE safe_int(now - df.last, INF_AGE)
            max_stale_seconds == cfg.timeframe_seconds * cfg.max_stale_multiplier
            stale == IF noLast THEN 1 ELSE IF IsStale(age_s, max_stale_seconds) THEN 1 ELSE 0
            r4 == IF noLast THEN Append(r3, Part("NO_LAST_BAR"))
                  ELSE AppendIf(stale = 1, r3, Part("STALE_DATA"))
            nan_last == IF empty THEN 1
                        ELSE IF NanLast(cfg.critical_last_cols, df) THEN 1 ELSE 0
            r5 == AppendIf(~empty /\ nan_last = 1, r4, Part("NAN_LAST_ROW"))
            data_ok == /\ ~empty
                       /\ missing = <<>>
                       /\ ~short
                       /\ ~badIndex
                       /\ stale = 0
                       /\ nan_last = 0
        IN  Returned([asset |-> asset,
                      data_ok |-> data_ok,
                      last_bar |-> IF noLast THEN NA ELSE FormatBar(df.last),
                      age_s |-> age_s,
                      rows |-> rows,
                      nan_last |-> nan_last,
                      stale |-> stale,
                      history_short |-> HistoryShortFlag(short),
                      signal_raw |-> signal_raw,
                      signal_trade |-> IF data_ok THEN signal_raw ELSE "NO_TRADE(DATA)",
                      reason |-> IF data_ok THEN OK ELSE r5])

-----------------------------------------------------------------------------
(* main.guard_intraday_df *)

guard_intraday_df(df, cfg, now) ==
    IF IsEmpty(df)
    THEN Returned([data_ok |-> FALSE, last_bar |-> NA, age_s |-> INF_AGE, rows |-> 0,
                   nan_last |-> 1, stale |-> 1, reason |-> <<Part("EMPTY_DF")>>])
    ELSE
    LET rows    == df.rows
        missing == MissingCols(cfg.required_cols, df)
        short   == rows < cfg.min_rows
        r1 == AppendIf(missing # <<>>, <<>>, <<"MISSING_COLS">> \o missing)
        r2 == AppendIf(short, r1, Part("HISTORY_SHORT"))
    IN  IF df.idx = "bad"
        THEN Returned([data_ok |-> FALSE, last_bar |-> NA, age_s |-> INF_AGE,
                       rows |-> rows, nan_last |-> 1, stale |-> 1,
                       reason |-> <<Part("BAD_INDEX")>>])
        ELSE IF df.idx = "nots"
        THEN Raised("AttributeError")
        ELSE
        LET age_s == safe_int(now - df.last, INF_AGE)
            max_stale_seconds == cfg.timeframe_seconds * cfg.max_stale_multiplier
            stale == IF IsStale(age_s, max_stale_seconds) THEN 1 ELSE 0
            r3 == AppendIf(stale = 1, r2, Part("STALE_DATA"))
            nan_last == IF NanLast(cfg.critical_last_cols, df) THEN 1 ELSE 0
            r4 == AppendIf(nan_last = 1, r3, Part("NAN_LAST_ROW"))
            data_ok == missing = <<>> /\ ~short /\ stale = 0 /\ nan_last = 0
        IN  Returned([data_ok |-> data_ok, last_bar |-> FormatBar(df.last),
                      age_s |-> age_s, rows |-> rows, nan_last |-> nan_last,
                      stale |-> stale,
                      reason |-> IF data_ok THEN OK ELSE r4])

-----------------------------------------------------------------------------
(* decision_engine.decide: the action of the returned (action, explanation) *)

AssetNames == {"GOLD", "SILVER", "COPPER", "NATURAL GAS", "PLATINUM"}

decideMut(asset, score) ==
    IF asset = "GOLD"
    THEN IF score > 550000 THEN "LONG_FULL"
         ELSE IF score >= 530000 THEN "LONG_HALF"
         ELSE "NO_TRADE"
    ELSE IF asset = "SILVER"
    THEN IF score >= 960000 THEN "LONG" ELSE "NO_TRADE"
    ELSE IF asset = "COPPER"
    THEN IF score >= 560000 THEN "LONG" ELSE "NO_TRADE"
    ELSE IF asset = "NATURAL GAS"
    THEN IF score >= 560000 THEN "LONG"
         ELSE IF score < 440000 THEN "SHORT"
         ELSE "NO_TRADE"
    ELSE "NO_TRADE"

decide(asset, score) ==
    IF asset = "GOLD"
    THEN IF score >= 550000 THEN "LONG_FULL"
         ELSE IF score >= 530000 THEN "LONG_HALF"
         ELSE "NO_TRADE"
    ELSE IF asset = "SILVER"
    THEN IF score >= 960000 THEN "LONG" ELSE "NO_TRADE"
    ELSE IF asset = "COPPER"
    THEN IF score >= 560000 THEN "LONG" ELSE "NO_TRADE"
    ELSE IF asset = "NATURAL GAS"
    THEN IF score >= 560000 THEN "LONG"
         ELSE IF score <= 440000 THEN "SHORT"
         ELSE "NO_TRADE"
    ELSE "NO_TRADE"

-----------------------------------------------------------------------------
(* model_core.compute_score on a DataFrame argument.  The floating-point    *)
(* momentum arithmetic is abstracted to its result, df.core: the weighted   *)
(* tanh sum, in thousandths, which lies in [-1000, 1000].                  *)

MinObs == 30

(* round(float(score), 3): to the nearest thousandth, ties to even *)
Round3(x) ==
    LET q == x \div 1000
        r == x % 1000
    IN  IF r < 500 THEN q * 1000
        ELSE IF r > 500 THEN (q + 1) * 1000
        ELSE IF q % 2 = 0 THEN q * 1000 ELSE (q + 1) * 1000

(* core = 0.65 * tanh(m20 * 0.8) + 0.35 * tanh(m5 * 1.2), the two tanh
   values given in thousandths *)
Core(t20, t5) == (650 * t20 + 350 * t5) \div 1000

(* score = 0.5 + core * 0.25 *)
compute_scoreMut(df) ==
    IF df.rows < MinObs THEN 500000
    ELSE Round3(500000 + df.core * 500)

compute_score(df) ==
    IF df.rows < MinObs THEN 500000
    ELSE Round3(500000 + df.core * 250)

-----------------------------------------------------------------------------
(* forecast_utils.forecast_trend: relative change of the close over the     *)
(* last `days` bars, abstracted to its result (df.f5, df.f15, millionths)   *)

forecast_trend(df, days) == IF days = 5 THEN df.f5 ELSE df.f15

-----------------------------------------------------------------------------
(* signal_guard.guard_dataframe, the guard forecast_asset calls             *)

DaySeconds == 86400

WeekSeconds == 604800

(* effective bar interval: the declared one if positive (0 stands for None),
   else the median delta df.delta clamped to [1 s, 7 d], one day if there
   are fewer than 3 rows or no positive delta *)
EffectiveInterval(declared, df) ==
    IF declared > 0 THEN declared
    ELSE IF df.rows < 3 \/ df.delta <= 0 THEN DaySeconds
    ELSE IF df.delta > WeekSeconds THEN WeekSeconds
    ELSE df.delta

guard_dataframe(asset, df, cfg, now) ==
    IF df.none \/ df.rows = 0
    THEN [asset |-> asset, data_ok |-> FALSE, last_bar_utc |-> NA, age_s |-> INF_AGE,
          rows |-> 0, nan_last |-> 1, stale |-> 1, timeframe_s |-> 0,
          reason |-> <<Part("EMPTY")>>]
    ELSE IF df.idx # "ts"
    THEN [asset |-> asset, data_ok |-> FALSE, last_bar_utc |-> NA, age_s |-> INF_AGE,
          rows |-> df.rows, nan_last |-> 1, stale |-> 1, timeframe_s |-> 0,
          reason |-> <<Part("BAD_INDEX")>>]
    ELSE
    LET missing  == MissingCols(cfg.required_cols, df)
        short    == df.rows < cfg.min_rows
        interval == EffectiveInterval(cfg.timeframe_seconds, df)
        age_s    == IntOfSeconds(now - df.last)
        stale    == age_s > interval * cfg.max_stale_multiplier
        nan_last == NanLast(cfg.critical_last_cols, df)
        r1 == AppendIf(missing # <<>>, <<>>, <<"MISSING_COLS">> \o missing)
        r2 == AppendIf(short, r1, Part("HISTORY_SHORT"))
        r3 == AppendIf(stale, r2, Part("STALE_DATA"))
        r4 == AppendIf(nan_last, r3, Part("NAN_LAST_ROW"))
        data_ok == missing = <<>> /\ ~short /\ ~stale /\ ~nan_last
    IN  [asset |-> asset, data_ok |-> data_ok, last_bar_utc |-> FormatBar(df.last),
         age_s |-> age_s, rows |-> df.rows,
         nan_last |-> IF nan_last THEN 1 ELSE 0,
         stale |-> IF stale THEN 1 ELSE 0,
         timeframe_s |-> interval,
         reason |-> IF data_ok THEN OK ELSE r4]

-----------------------------------------------------------------------------
(* forecast_assets: the orchestrator *)

ASSETS == << <<"GOLD", "GC=F", "STRONG_SUPPORT">>,
             <<"SILVER", "SI=F", "NO_SUPPORT">>,
             <<"NATURAL GAS", "NG=F", "STRONG_SUPPORT">>,
             <<"COPPER", "HG=F", "STRONG_SUPPORT">> >>

(* keyword arguments forecast_asset passes to guard_dataframe; 0 is None *)
ForecastGuardConfig ==
    [timeframe_seconds |-> 0,
     max_stale_multiplier |-> 2,
     min_rows |-> 30,
     required_cols |-> <<"Open", "High", "Low", "Close">>,
     critical_last_cols |-> <<"Close">>]

(* _last_scalar_from_df(df, "Close") followed by round(close, 1) *)
NoClose == [kind |-> "None", val |-> 0]

last_scalar_from_df(df, col) ==
    IF df.none \/ df.rows = 0 \/ col \notin df.cols THEN NoClose
    ELSE IF col \in df.nan THEN [kind |-> "nan", val |-> 0]
    ELSE [kind |-> "num", val |-> df.close]

(* the parameters of decide(asset, score) *)
DecideParams == {"asset", "score"}

(* a call of decide with keyword arguments: Python raises TypeError for a
   keyword that is no parameter, or a parameter left without a value *)
call_decide(kwargs) ==
    IF DOMAIN kwargs = DecideParams
    THEN Returned(decide(kwargs.asset, kwargs.score))
    ELSE Raised("TypeError")

(* decision["rule_signal"] etc.: the value decide returns is a tuple, and
   subscripting a tuple with a string raises TypeError *)
Subscript(value, key) == Raised("TypeError")

BlockedResult(asset, close, guard) ==
    [asset |-> asset,
     close |-> close,
     score |-> 0,
     signal |-> "NO_TRADE",
     f_1_5 |-> 0,
     f_2_3 |-> 0,
     gpt_1_5d |-> "NA",
     gpt_2_3w |-> "NA",
     final |-> "NO_TRADE(DATA)",
     zusatzinfo |-> <<Part("DATA BLOCK")>> \o guard.reason,
     data_ok |-> guard.data_ok,
     last_bar_utc |-> guard.last_bar_utc,
     age_s |-> guard.age_s,
     rows |-> guard.rows,
     nan_last |-> guard.nan_last,
     stale |-> guard.stale,
     timeframe_s |-> guard.timeframe_s,
     guard_reason |-> guard.reason]

FullResult(asset, close, score, f_1_5, f_2_3, decision, guard) ==
    [asset |-> asset,
     close |-> close,
     score |-> score,
     signal |-> decision.rule_signal,
     f_1_5 |-> f_1_5,
     f_2_3 |-> f_2_3,
     gpt_1_5d |-> decision.gpt_1_5d,
     gpt_2_3w |-> decision.gpt_2_3w,
     final |-> decision.action,
     zusatzinfo |-> decision.zusatzinfo,
     data_ok |-> guard.data_ok,
     last_bar_utc |-> guard.last_bar_utc,
     age_s |-> guard.age_s,
     rows |-> guard.rows,
     nan_last |-> guard.nan_last,
     stale |-> guard.stale,
     timeframe_s |-> guard.timeframe_s,
     guard_reason |-> guard.reason]

ErrorResult(asset, exc) ==
    [asset |-> asset,
     close |-> NoClose,
     score |-> 0,
     signal |-> "NO_TRADE",
     f_1_5 |-> 0,
     f_2_3 |-> 0,
     gpt_1_5d |-> "NA",
     gpt_2_3w |-> "NA",
     final |-> "NO_TRADE(ERROR)",
     zusatzinfo |-> <<Part("ERROR"), Part(exc)>>,
     data_ok |-> FALSE,
     last_bar_utc |-> NA,
     age_s |-> INF_AGE,
     rows |-> 0,
     nan_last |-> 1,
     stale |-> 1,
     timeframe_s |-> 0,
     guard_reason |-> <<Part("ERROR"), Part(exc)>>]

(* if not guard.data_ok *)
GuardBlocksMut(guard) == ~guard.data_ok /\ guard.rows = 0

GuardBlocks(guard) == ~guard.data_ok

(* what forecast_asset does: it returns a record or raises, and calls the
   guard, the score model, the trend signal and the decision engine on the
   way (calls).  feed is what the collaborators deliver for this asset:
   feed.df the downloaded table, feed.fault the collaborator that raises. *)
Outcome(raised, exc, v, guard, calls) ==
    [raised |-> raised, exc |-> exc, v |-> v, guard |-> guard, calls |-> calls]

NoGuard == <<>>

NoRecord == <<>>

forecast_asset(asset, ticker, macro_bias, feed, now) ==
    IF feed.fault = "fetch"
    THEN Outcome(TRUE, "DownloadError", NoRecord, NoGuard, {})
    ELSE IF feed.fault = "guard"
    THEN Outcome(TRUE, "GuardError", NoRecord, NoGuard, {"guard_dataframe"})
    ELSE
    LET df    == feed.df
        guard == guard_dataframe(asset, df, ForecastGuardConfig, now)
        close == last_scalar_from_df(df, "Close")
    IN  IF GuardBlocks(guard)
        THEN Outcome(FALSE, "", BlockedResult(asset, close, guard), <<guard>>,
                     {"guard_dataframe"})
        ELSE IF feed.fault = "score"
        THEN Outcome(TRUE, "ValueError", NoRecord, <<guard>>,
                     {"guard_dataframe", "model_score"})
        ELSE
        LET score == compute_score(df)
            f_1_5 == forecast_trend(df, 5)
            f_2_3 == forecast_trend(df, 15)
            called == {"guard_dataframe", "model_score", "forecast_trend", "decide"}
            decision == call_decide([asset |-> asset, score |-> score,
                                     signal_1_5d |-> f_1_5, signal_2_3w |-> f_2_3,
                                     macro_bias |-> macro_bias])
        IN  IF decision.raised
            THEN Outcome(TRUE, decision.exc, NoRecord, <<guard>>, called)
            ELSE LET sub == Subscript(decision.v, "rule_signal")
                 IN  IF sub.raised
                     THEN Outcome(TRUE, sub.exc, NoRecord, <<guard>>, called)
                     ELSE Outcome(FALSE, "",
                                  FullResult(asset, close, score, f_1_5, f_2_3,
                                             sub.v, guard),
                                  <<guard>>, called)

(* one iteration of run_all's loop: try forecast_asset, except Exception *)
RunAssetResultMut(out, asset) ==
    IF out.raised THEN [ErrorResult(asset, out.exc) EXCEPT !.final = "NO_TRADE(DATA)"]
    ELSE out.v

RunAssetResult(out, asset) ==
    IF out.raised THEN ErrorResult(asset, out.exc) ELSE out.v

-----------------------------------------------------------------------------
(* What the collaborators deliver to one run of run_all *)

HalfDay == 2 * 43200

RunNow == 80 * HalfDay

FreshDf(rows, ageDays, nan, core) ==
    [none |-> FALSE, rows |-> rows, cols |-> OHLCV, idx |-> "ts",
     last |-> RunNow - ageDays * 2 * HalfDay, nan |-> nan,
     delta |-> DaySeconds, core |-> core, f5 |-> 12000, f15 |-> -8000,
     close |-> 19876]

Feed(fault, df) == [fault |-> fault, df |-> df]

GoodDf == FreshDf(60, 0, {}, 240)

Feeds ==
    { Feed("none", FreshDf(0, 0, {}, 0)),
      Feed("none", FreshDf(29, 0, {}, 0)),
      Feed("none", FreshDf(60, 10, {}, 0)),
      Feed("none", FreshDf(60, 0, {"Close"}, 0)),
      Feed("none", FreshDf(60, 2, {}, 0)),
      Feed("none", GoodDf),
      Feed("score", GoodDf),
      Feed("guard", GoodDf),
      Feed("fetch", GoodDf) }

(* price arrays handed to compute_score: the number of observations and the
   two tanh values (thousandths, in [-1, 1]; tanh saturates to exactly 1.0
   for a large momentum, e.g. steadily rising prices) *)
ObsCounts == {0, 29, 30, 60}

TanhValues == {-1000, -600, -200, 0, 200, 600, 1000}

DecideScores ==
    {0, 250000, 300000, 500000, 700000, 750000, 1000000}
    \cup { t + d : t \in {440000, 530000, 550000, 560000, 960000}, d \in {-1, 0, 1} }

-----------------------------------------------------------------------------
(* State machine.  A behaviour is one call of a guard or of decide from the *)
(* idle state, or one run of run_all over ASSETS.                           *)

-----------------------------------------------------------------------------
(* forecast_writer.write_daily_summary: the rows written for the records    *)

(* r.get(key, default) *)
Get(r, key, default) == IF key \in DOMAIN r THEN r[key] ELSE default

(* len(text) for the action vocabulary *)
TextLen(text) ==
    CASE text = "NO_TRADE(DATA)" -> 14
      [] text = "NO_TRADE(ERROR)" -> 15
      [] text = "NO_TRADE" -> 8
      [] text = "LONG_FULL" -> 9
      [] text = "LONG_HALF" -> 9
      [] text = "LONG" -> 4
      [] text = "SHORT" -> 5

(* f"{text:<width}": the text followed by the blanks that fill the width *)
LeftJustify(text, width) ==
    [text |-> text, pad |-> IF TextLen(text) < width THEN width - TextLen(text) ELSE 0]

(* close_str: the number if close is an int or a float, else 'NA' *)
CloseStr(close) == IF close.kind = "None" THEN [kind |-> "NA", val |-> 0] ELSE close

(* if not data_ok: final = "NO_TRADE(DATA)" *)
SummaryFinalMut(data_ok, final) == final

SummaryFinal(data_ok, final) == IF ~data_ok THEN "NO_TRADE(DATA)" ELSE final

SummaryRow(r) ==
    LET data_ok == Get(r, "data_ok", FALSE)
        final   == SummaryFinal(data_ok, Get(r, "final", "NO_TRADE"))
    IN  [asset |-> Get(r, "asset", "NA"),
         close |-> CloseStr(Get(r, "close", NoClose)),
         score |-> Get(r, "score", 0),
         signal |-> Get(r, "signal", "NA"),
         f_1_5 |-> Get(r, "f_1_5", 0),
         f_2_3 |-> Get(r, "f_2_3", 0),
         gpt_1_5d |-> Get(r, "gpt_1_5d", "NA"),
         gpt_2_3w |-> Get(r, "gpt_2_3w", "NA"),
         final |-> LeftJustify(final, 14),
         data_ok |-> IF data_ok THEN "True" ELSE "False",
         last_bar_utc |-> Get(r, "last_bar_utc_display", NA),
         age_s |-> Get(r, "age_s", 0),
         age_h |-> Get(r, "age_h", 0),
         rows |-> Get(r, "rows", 0),
         nan_last |-> Get(r, "nan_last", 0),
         stale |-> Get(r, "stale", 0),
         zusatzinfo |-> Get(r, "zusatzinfo", <<>>)]

write_daily_summary(recs) ==
    Returned([j \in 1..Len(recs) |-> SummaryRow(recs[j])])

(* records handed to write_daily_summary: the error record of run_all, a
   blocked and a full record as forecast_asset builds them, and records
   that lack data_ok or final *)
SummaryRecords ==
    { ErrorResult("GOLD", "TypeError"),
      BlockedResult("COPPER", NoClose,
                    guard_dataframe("COPPER", FreshDf(0, 0, {}, 0),
                                    ForecastGuardConfig, RunNow)),
      FullResult("GOLD", [kind |-> "num", val |-> 19876], 560000, 12000, -8000,
                 [rule_signal |-> "LONG_FULL", gpt_1_5d |-> "OK", gpt_2_3w |-> "OK",
                  action |-> "LONG_FULL", zusatzinfo |-> <<>>],
                 guard_dataframe("GOLD", GoodDf, ForecastGuardConfig, RunNow)),
      [asset |-> "SILVER", final |-> "LONG"],
      [asset |-> "GOLD", data_ok |-> TRUE],
      [asset |-> "NATURAL GAS", data_ok |-> FALSE, final |-> "SHORT"] }

NoCall == [op |-> "none"]

Init ==
    /\ pc = "idle"
    /\ ret = NoCall
    /\ k = 1
    /\ results = <<>>
    /\ fed = <<>>

Call_audit_and_format_signal ==
    /\ pc = "idle"
    /\ \E df \in Dfs, cfg \in GuardConfigs, now \in Nows :
          ret' = [op |-> "audit_and_format_signal", df |-> df, cfg |-> cfg, now |-> now,
                  out |-> audit_and_format_signal("GOLD", df, "BUY", cfg, now)]
    /\ pc' = "returned"
    /\ UNCHANGED <<k, results, fed>>

Call_guard_intraday_df ==
    /\ pc = "idle"
    /\ \E df \in Dfs, cfg \in GuardConfigs, now \in Nows :
          ret' = [op |-> "guard_intraday_df", df |-> df, cfg |-> cfg, now |-> now,
                  out |-> guard_intraday_df(df, cfg, now)]
    /\ pc' = "returned"
    /\ UNCHANGED <<k, results, fed>>

Call_decide ==
    /\ pc = "idle"
    /\ \E asset \in AssetNames, score \in DecideScores :
          ret' = [op |-> "decide", asset |-> asset, score |-> score,
                  out |-> Returned(decide(asset, score))]
    /\ pc' = "returned"
    /\ UNCHANGED <<k, results, fed>>

Call_compute_score ==
    /\ pc = "idle"
    /\ \E n \in ObsCounts, t20 \in TanhValues, t5 \in TanhValues :
          LET prices == [rows |-> n, core |-> Core(t20, t5)]
          IN  ret' = [op |-> "compute_score", n |-> n, t20 |-> t20, t5 |-> t5,
                      out |-> Returned(compute_score(prices))]
    /\ pc' = "returned"
    /\ UNCHANGED <<k, results, fed>>

Call_write_daily_summary ==
    /\ pc = "idle"
    /\ \E n \in 1..MaxRecs :
          \E recs \in [1..n -> SummaryRecords] :
              ret' = [op |-> "write_daily_summary", results |-> recs,
                      out |-> write_daily_summary(recs)]
    /\ pc' = "returned"
    /\ UNCHANGED <<k, results, fed>>

run_all_begin ==
    /\ pc = "idle"
    /\ pc' = "loop"
    /\ k' = 1
    /\ results' = <<>>
    /\ fed' = <<>>
    /\ UNCHANGED ret

run_all_step ==
    /\ pc = "loop"
    /\ k <= Len(ASSETS)
    /\ \E feed \in Feeds :
          LET a   == ASSETS[k]
              out == forecast_asset(a[1], a[2], a[3], feed, RunNow)
          IN  /\ results' = Append(results, RunAssetResult(out, a[1]))
              /\ fed' = Append(fed, [feed |-> feed, out |-> out])
    /\ k' = k + 1
    /\ UNCHANGED <<pc, ret>>

run_all_return ==
    /\ pc = "loop"
    /\ k > Len(ASSETS)
    /\ pc' = "done"
    /\ UNCHANGED <<ret, k, results, fed>>

Next ==
    \/ Call_audit_and_format_signal
    \/ Call_guard_intraday_df
    \/ Call_decide
    \/ Call_compute_score
    \/ Call_write_daily_summary
    \/ run_all_begin
    \/ run_all_step
    \/ run_all_return

Spec == Init /\ [][Next]_vars

(* Fairness: run_all is a for loop over the finite list ASSETS, executed
   synchronously, so a started run takes each of its steps *)
FairSpec == Spec /\ WF_vars(run_all_step) /\ WF_vars(run_all_return)

-----------------------------------------------------------------------------
(* Vocabulary of the properties *)

GuardOps == {"audit_and_format_signal", "guard_intraday_df"}

GuardCalled == ret.op \in GuardOps

AuditCalled == ret.op = "audit_and_format_signal"

(* the reason has a part with this code *)
Has(reason, code) == \E j \in 1..Len(reason) : reason[j][1] = code

(* the reason text contains "EMPTY": the part EMPTY_DF or EMPTY *)
HasEmpty(reason) == Has(reason, "EMPTY_DF") \/ Has(reason, "EMPTY")

NonEmptyDf(df) == ~df.none /\ df.rows > 0

Processed == 1..Len(results)

PipelineStages == {"model_score", "forecast_trend", "decide"}

(* the guard returned a verdict for the j-th asset *)
HasVerdict(j) == fed[j].out.guard # <<>>

Verdict(j) == fed[j].out.guard[1]

-----------------------------------------------------------------------------
(* C1: whenever the guard verdict of a processed asset is not usable, the   *)
(* asset's result is the blocked result: final is exactly NO_TRADE(DATA),   *)
(* score and both trend fields are 0, the guard's reason is carried         *)
(* verbatim, and neither the score model nor the trend signal nor the       *)
(* decision engine was invoked; and an unusable SignalAudit trades          *)
(* NO_TRADE(DATA).                                                          *)
C1_UnusableGuardBlocks ==
    /\ \A j \in Processed :
          (HasVerdict(j) /\ ~Verdict(j).data_ok) =>
              /\ ~fed[j].out.raised
              /\ results[j].final = "NO_TRADE(DATA)"
              /\ results[j].score = 0
              /\ results[j].f_1_5 = 0
              /\ results[j].f_2_3 = 0
              /\ results[j].guard_reason = Verdict(j).reason
              /\ results[j].data_ok = FALSE
              /\ fed[j].out.calls \cap PipelineStages = {}
    /\ (AuditCalled /\ ~ret.out.raised /\ ~ret.out.v.data_ok) =>
          ret.out.v.signal_trade = "NO_TRADE(DATA)"

(* a stale but otherwise good series was blocked *)
C1_Witness ==
    \E j \in Processed :
        /\ HasVerdict(j)
        /\ ~Verdict(j).data_ok
        /\ Verdict(j).reason = <<Part("STALE_DATA")>>
        /\ results[j].final = "NO_TRADE(DATA)"

-----------------------------------------------------------------------------
(* C2: run_all terminates, and when it has returned there is exactly one    *)
(* record per configured asset, in configuration order; every asset whose   *)
(* processing raised has final NO_TRADE(ERROR), and every other asset has   *)
(* the record forecast_asset returns for that asset's own inputs, whatever  *)
(* happened to the other assets.                                            *)
C2_RecordsAtReturn ==
    pc = "done" =>
        /\ Len(results) = Len(ASSETS)
        /\ \A j \in 1..Len(ASSETS) :
              LET a == ASSETS[j]
                  alone == forecast_asset(a[1], a[2], a[3], fed[j].feed, RunNow)
              IN  /\ results[j].asset = a[1]
                  /\ alone.raised => results[j].final = "NO_TRADE(ERROR)"
                  /\ ~alone.raised => results[j] = alone.v

C2_RunAllIsolation ==
    /\ [](C2_RecordsAtReturn)
    /\ (pc = "loop") ~> (pc = "done")

(* a finished run in which one asset raised and the next one was blocked *)
C2_Witness ==
    /\ pc = "done"
    /\ fed[1].out.raised
    /\ fed[1].feed.fault = "fetch"
    /\ ~fed[2].out.raised
    /\ results[1].final = "NO_TRADE(ERROR)"
    /\ results[2].final = "NO_TRADE(DATA)"

-----------------------------------------------------------------------------
(* Vocabulary of the guard properties *)

GuardReturned == GuardCalled /\ ~ret.out.raised

(* every required column is present *)
NoMissingCols(df, cfg) ==
    \A j \in 1..Len(cfg.required_cols) : cfg.required_cols[j] \in df.cols

(* a configured critical last-row field has a NaN value in the last row *)
CriticalNaN(df, cfg) ==
    \E j \in 1..Len(cfg.critical_last_cols) :
        cfg.critical_last_cols[j] \in df.cols \cap df.nan

Malformed(df, cfg) ==
    \/ df.none
    \/ df.rows = 0
    \/ ~NoMissingCols(df, cfg)
    \/ df.rows < cfg.min_rows
    \/ df.idx # "ts"

-----------------------------------------------------------------------------
(* C3: the guard never raises: for every price table it returns a verdict,  *)
(* and for every malformed one (absent, empty, missing columns, too few     *)
(* rows, last index element not extractable or not a timestamp) the verdict *)
(* has usable = false and a reason other than OK.                           *)
C3_GuardNeverRaises ==
    GuardCalled =>
        /\ ~ret.out.raised
        /\ Malformed(ret.df, ret.cfg) =>
              (~ret.out.v.data_ok /\ ret.out.v.reason # OK)

-----------------------------------------------------------------------------
(* C4: for every asset whose guard verdict is usable (and whose             *)
(* collaborators do not fail), the orchestrator invokes the score model,    *)
(* the trend signal and the decision engine and returns a full record with  *)
(* data_ok true and final = the action of decide(asset, computed score).    *)
C4_UsableGuardFullResult ==
    \A j \in Processed :
        (fed[j].feed.fault = "none" /\ HasVerdict(j) /\ Verdict(j).data_ok) =>
            /\ PipelineStages \subseteq fed[j].out.calls
            /\ results[j].data_ok = TRUE
            /\ results[j].score = compute_score(fed[j].feed.df)
            /\ results[j].final = decide(ASSETS[j][1], compute_score(fed[j].feed.df))

-----------------------------------------------------------------------------
(* C5: decide returns exactly one action for every (asset, score), the one  *)
(* of the band table with exact boundaries; an asset outside the table gets *)
(* NO_TRADE.                                                                *)
BandTable(asset, score, action) ==
    /\ asset = "GOLD" =>
          /\ score >= 550000 => action = "LONG_FULL"
          /\ (530000 <= score /\ score < 550000) => action = "LONG_HALF"
          /\ score < 530000 => action = "NO_TRADE"
    /\ asset = "SILVER" =>
          /\ score >= 960000 => action = "LONG"
          /\ score < 960000 => action = "NO_TRADE"
    /\ asset = "COPPER" =>
          /\ score >= 560000 => action = "LONG"
          /\ score < 560000 => action = "NO_TRADE"
    /\ asset = "NATURAL GAS" =>
          /\ score >= 560000 => action = "LONG"
          /\ score <= 440000 => action = "SHORT"
          /\ (440000 < score /\ score < 560000) => action = "NO_TRADE"
    /\ asset \notin {"GOLD", "SILVER", "COPPER", "NATURAL GAS"} => action = "NO_TRADE"

C5_DecideBandTable ==
    ret.op = "decide" =>
        /\ ~ret.out.raised
        /\ ret.out.v \in {"LONG_FULL", "LONG_HALF", "LONG", "SHORT", "NO_TRADE"}
        /\ BandTable(ret.asset, ret.score, ret.out.v)

(* GOLD exactly on the upper boundary *)
C5_Witness ==
    /\ ret.op = "decide"
    /\ ret.asset = "GOLD"
    /\ ret.score = 550000
    /\ ret.out.v = "LONG_FULL"

-----------------------------------------------------------------------------
(* C6 as stated: in every verdict audit_and_format_signal returns, usable   *)
(* is false if and only if one of the verdict's flags (history_short,       *)
(* nan_last, stale) is set.                                                 *)
AnyFlag(v) == v.history_short = 1 \/ v.nan_last = 1 \/ v.stale = 1

C6_UsableIffNoFlag ==
    (AuditCalled /\ ~ret.out.raised) =>
        (~ret.out.v.data_ok <=> AnyFlag(ret.out.v))

(* C6 amended: in every verdict a guard returns, every set flag makes the   *)
(* verdict unusable, and the verdict is unusable if and only if nan_last or *)
(* stale is set or its reason names HISTORY_SHORT (which SignalAudit also   *)
(* flags as history_short, GuardResult does not) or MISSING_COLS (for which *)
(* no verdict has a flag); a usable verdict has reason OK.                  *)
C6_UsableIffNoFlagNorMissing ==
    GuardReturned =>
        LET v == ret.out.v
        IN  /\ ~v.data_ok <=>
                  \/ v.nan_last = 1
                  \/ v.stale = 1
                  \/ Has(v.reason, "HISTORY_SHORT")
                  \/ Has(v.reason, "MISSING_COLS")
            /\ v.data_ok <=> (v.reason = OK)
            /\ AuditCalled =>
                  /\ v.history_short = 1 <=> Has(v.reason, "HISTORY_SHORT")
                  /\ ~v.data_ok <=> (AnyFlag(v) \/ Has(v.reason, "MISSING_COLS"))
                  /\ Has(v.reason, "MISSING_COLS") <=>
                        (NonEmptyDf(ret.df) /\ ~NoMissingCols(ret.df, ret.cfg))

(* missing columns only: unusable with no flag set *)
C6_Witness ==
    /\ AuditCalled
    /\ ~ret.out.raised
    /\ ~ret.out.v.data_ok
    /\ ~AnyFlag(ret.out.v)
    /\ ret.out.v.reason = << <<"MISSING_COLS", "Volume">> >>

-----------------------------------------------------------------------------
(* C7: for a non-empty series with a timestamp as last index element, the   *)
(* age is now - last in whole seconds, and stale is set if and only if the  *)
(* age is strictly greater than timeframe_seconds * max_stale_multiplier;   *)
(* a stale verdict is unusable with STALE_DATA in its reason; an age equal  *)
(* to the threshold, or a negative one, is not stale, and the verdict is    *)
(* usable when all other checks pass.                                       *)
C7_StaleIffAgeExceeds ==
    (GuardCalled /\ NonEmptyDf(ret.df) /\ ret.df.idx = "ts") =>
        LET v  == ret.out.v
            d  == ret.now - ret.df.last
            th == ret.cfg.timeframe_seconds * ret.cfg.max_stale_multiplier
        IN  /\ ~ret.out.raised
            /\ d >= 0 => (2 * v.age_s <= d /\ d < 2 * v.age_s + 2)
            /\ d < 0 => (v.age_s <= 0 /\ v.stale = 0)
            /\ v.stale = 1 <=> v.age_s > th
            /\ v.stale = 1 =>
                  (~v.data_ok /\ Has(v.reason, "STALE_DATA"))
            /\ v.stale = 0 =>
                  /\ ~Has(v.reason, "STALE_DATA")
                  /\ (/\ NoMissingCols(ret.df, ret.cfg)
                      /\ ret.df.rows >= ret.cfg.min_rows
                      /\ ~CriticalNaN(ret.df, ret.cfg)) => v.data_ok

(* the age, truncated to whole seconds, is exactly the threshold *)
C7_Witness ==
    /\ GuardReturned
    /\ NonEmptyDf(ret.df)
    /\ ret.df.idx = "ts"
    /\ ret.now - ret.df.last = 5
    /\ ret.out.v.age_s = 2
    /\ ret.cfg.timeframe_seconds * ret.cfg.max_stale_multiplier = 2
    /\ ret.out.v.stale = 0
    /\ ret.out.v.data_ok

-----------------------------------------------------------------------------
(* C8: for an absent series or one with zero rows the guard returns         *)
(* usable = false, a reason containing EMPTY, age 10^9, row count 0,        *)
(* nan_last set and stale set, whatever the configuration.                  *)
C8_EmptySeries ==
    (GuardCalled /\ (ret.df.none \/ ret.df.rows = 0)) =>
        /\ ~ret.out.raised
        /\ ~ret.out.v.data_ok
        /\ HasEmpty(ret.out.v.reason)
        /\ ret.out.v.age_s = 1000000000
        /\ ret.out.v.rows = 0
        /\ ret.out.v.nan_last = 1
        /\ ret.out.v.stale = 1

(* a table with zero rows, not None *)
C8_Witness ==
    /\ GuardReturned
    /\ ~ret.df.none
    /\ ret.df.rows = 0
    /\ ret.out.v.reason[1] = Part("EMPTY_DF")
    /\ ret.out.v.age_s = 1000000000

-----------------------------------------------------------------------------
(* C9: for every non-empty series with fewer rows than min_rows the guard   *)
(* returns usable = false and a reason containing HISTORY_SHORT, whatever   *)
(* the other checks find.                                                   *)
C9_HistoryShort ==
    (GuardCalled /\ NonEmptyDf(ret.df) /\ ret.df.rows < ret.cfg.min_rows) =>
        /\ ~ret.out.raised
        /\ ~ret.out.v.data_ok
        /\ Has(ret.out.v.reason, "HISTORY_SHORT")

-----------------------------------------------------------------------------
(* C10: for every non-empty series with a NaN in the last row of a          *)
(* configured critical field the guard returns usable = false, nan_last set *)
(* and a reason containing NAN_LAST_ROW.                                    *)
C10_NanLastRow ==
    (GuardCalled /\ NonEmptyDf(ret.df) /\ CriticalNaN(ret.df, ret.cfg)) =>
        /\ ~ret.out.raised
        /\ ~ret.out.v.data_ok
        /\ ret.out.v.nan_last = 1
        /\ Has(ret.out.v.reason, "NAN_LAST_ROW")

-----------------------------------------------------------------------------
(* C11: the value compute_score returns lies within the clamp bounds        *)
(* [0.30, 0.70] for every input, and fewer than 30 observations give the    *)
(* neutral midpoint 0.50.                                                   *)
C11_ScoreWithinClamp ==
    ret.op = "compute_score" =>
        /\ ~ret.out.raised
        /\ 300000 <= ret.out.v
        /\ ret.out.v <= 700000
        /\ ret.n < 30 => ret.out.v = 500000

-----------------------------------------------------------------------------
(* C12: every score compute_score returns is at most 0.75 (and at least     *)
(* 0.25), so decide("SILVER", score) is NO_TRADE: the SILVER LONG band,     *)
(* score >= 0.96, is never reached with a computed score.                   *)
C12_SilverLongUnreachable ==
    ret.op = "compute_score" =>
        /\ 250000 <= ret.out.v
        /\ ret.out.v <= 750000
        /\ decide("SILVER", ret.out.v) = "NO_TRADE"

(* both tanh values saturated: the largest score *)
C12_Witness ==
    /\ ret.op = "compute_score"
    /\ ret.n >= 30
    /\ ret.t20 = 1000
    /\ ret.t5 = 1000
    /\ ret.out.v = 750000
    /\ decide("SILVER", ret.out.v) = "NO_TRADE"

-----------------------------------------------------------------------------
(* C13: write_daily_summary writes one row per record; for a record whose   *)
(* data_ok is false or absent the FINAL column is NO_TRADE(DATA) whatever   *)
(* the record's own final is, so the error record of run_all (final         *)
(* NO_TRADE(ERROR), data_ok False) is written as NO_TRADE(DATA); a row      *)
(* shows another final only for a record with data_ok true, and then it is  *)
(* the record's own final (NO_TRADE if the record has none).                *)
C13_SummaryFinalColumn ==
    ret.op = "write_daily_summary" =>
        /\ ~ret.out.raised
        /\ Len(ret.out.v) = Len(ret.results)
        /\ \A j \in 1..Len(ret.results) :
              LET r     == ret.results[j]
                  text  == ret.out.v[j].final.text
                  notOk == "data_ok" \notin DOMAIN r \/ r.data_ok = FALSE
              IN  /\ notOk => text = "NO_TRADE(DATA)"
                  /\ text # "NO_TRADE(DATA)" =>
                        /\ "data_ok" \in DOMAIN r
                        /\ r.data_ok = TRUE
                        /\ "final" \in DOMAIN r => text = r.final
                        /\ "final" \notin DOMAIN r => text = "NO_TRADE"
                  /\ ret.out.v[j].data_ok = "True" <=> ~notOk

(* the error record of run_all, written next to a usable record *)
C13_Witness ==
    /\ ret.op = "write_daily_summary"
    /\ Len(ret.results) = 2
    /\ ret.results[1] = ErrorResult("GOLD", "TypeError")
    /\ ret.results[1].final = "NO_TRADE(ERROR)"
    /\ ret.out.v[1].final.text = "NO_TRADE(DATA)"
    /\ ret.out.v[2].final.text = "LONG_FULL"
    /\ ret.out.v[2].data_ok = "True"

====
